---- MODULE Spec2Model ----
(***************************************************************************)
(* Model of the time-weighted average sensor (TwAverageSensor) of          *)
(* ha-tw-average: src/sensor.py.                                           *)
(*                                                                         *)
(* Two threads of control touch one sensor: the event loop, which runs     *)
(* _async_sensor_changed (ingest) for every state change of a source, and  *)
(* the executor thread that runs update() (tick) once per scan interval.   *)
(* Each statement that touches shared state is one step (the dict literal  *)
(* of update_state reads one field per line, one step each).               *)
(*                                                                         *)
(* Python floats are modelled as exact rationals n/d (plus NaN): with the  *)
(* values and the scan interval used here every quotient is a small        *)
(* rational without a factor 5 in its denominator, for which float         *)
(* arithmetic and round() agree with the exact result.                     *)
(***************************************************************************)
EXTENDS Integers, Sequences, FiniteSets, TLC

\* ------------------------------------------------------------------ bounds
MaxClock == 2        \* the clock runs 0..MaxClock (one unit = half a scan interval)
MaxIngests == 2      \* accepted ingests in one behaviour
MaxTicks == 2        \* ticks in one behaviour

\* ------------------------------------------------------- configuration
ScanInterval == 2    \* self.scan_interval.total_seconds(), in clock units
EntityIds == <<"A", "B">>                 \* self._entity_ids, in dict order
Sources == {EntityIds[i] : i \in 1..Len(EntityIds)}
METHOD_TIME_WEIGHTED == "time-weighted"
METHOD_LINEAR == "linear"
AVERAGE_METHODS == {METHOD_TIME_WEIGHTED, METHOD_LINEAR}
TOTAL_METHOD_SUM == "sum"
TOTAL_METHOD_AVERAGE == "average"
TOTAL_METHODS == {TOTAL_METHOD_SUM, TOTAL_METHOD_AVERAGE}
Precisions == {0, 1}
STATE_UNAVAILABLE == "unavailable"
STATE_UNKNOWN == "unknown"
NoState == "<no state>"                   \* new_state is None
\* the raw states a source can take
RawStates == {NoState, STATE_UNAVAILABLE, STATE_UNKNOWN, "abc", "nan", "1", "-3"}
\* what async_get_last_state() can return: no state, or a state
PersistedStates == {NoState, STATE_UNKNOWN, "1"}

\* ---------------------------------------------------------------- floats
None == [k |-> "none", n |-> 0, d |-> 1]
NaN == [k |-> "nan", n |-> 0, d |-> 1]
NoEntity == "<None>"

Abs(i) == IF i < 0 THEN -i ELSE i

RECURSIVE GCD(_, _)
GCD(a, b) == IF b = 0 THEN a ELSE GCD(b, a % b)

\* the float n/d, d > 0, in lowest terms
Fin(n, d) == LET g == GCD(Abs(n), d) IN [k |-> "fin", n |-> n \div g, d |-> d \div g]

IsNone(x) == x.k = "none"
IsNaN(x) == x.k = "nan"
IsFin(x) == x.k = "fin"

FAdd(x, y) == IF IsNaN(x) \/ IsNaN(y) THEN NaN ELSE Fin(x.n * y.d + y.n * x.d, x.d * y.d)
\* float * float, the second an integral number of seconds
FMul(x, i) == IF IsNaN(x) THEN NaN ELSE Fin(x.n * i, x.d)
\* float / positive number
FDiv(x, i) == IF IsNaN(x) THEN NaN ELSE Fin(x.n, x.d * i)
\* x < y on two floats (False when either is NaN)
FLt(x, y) == IsFin(x) /\ IsFin(y) /\ x.n * y.d < y.n * x.d
\* x != y (None != float, NaN != anything)
FNe(x, y) == IF IsNaN(x) \/ IsNaN(y) THEN TRUE ELSE x # y

\* float(state): the float, or "ValueError"
ParsesAsInt == [s \in {"1", "-3"} |-> IF s = "1" THEN 1 ELSE -3]
FloatOf(s) ==
    IF s \in DOMAIN ParsesAsInt THEN Fin(ParsesAsInt[s], 1)
    ELSE IF s = "nan" THEN NaN
    ELSE [k |-> "ValueError", n |-> 0, d |-> 1]

\* int(x) of a finite float: truncation toward zero
IntOf(x) == IF x.n >= 0 THEN Fin(x.n \div x.d, 1) ELSE Fin(-((-x.n) \div x.d), 1)

RECURSIVE Pow10(_)
Pow10(p) == IF p = 0 THEN 1 ELSE 10 * Pow10(p - 1)

\* round(x, p): to p decimal digits, a tie to the even digit; round(nan, p) is nan
RoundOf(x, p) ==
    IF IsNaN(x) THEN NaN
    ELSE LET s == Pow10(p)
             q == (x.n * s) \div x.d          \* floor
             r == (x.n * s) % x.d
             up == \/ 2 * r > x.d
                   \/ (2 * r = x.d /\ q % 2 = 1)
         IN Fin(IF up THEN q + 1 ELSE q, s)

\* str(x) of a float, of None
StrOf(x) ==
    IF IsNone(x) THEN "None"
    ELSE IF IsNaN(x) THEN "nan"
    ELSE IF x.d = 1 THEN ToString(x.n) \o ".0"
    ELSE ToString(x.n) \o "/" \o ToString(x.d)

\* ------------------------------------------------------ pure functions
\* a sample is <<timestamp_start, state>>
RECURSIVE TwLoop(_, _, _, _)
TwLoop(now, states, index, result) ==
    IF index > Len(states) THEN result
    ELSE LET start == states[index][1]
             value == states[index][2]
             end == IF index < Len(states) THEN states[index + 1][1] ELSE now
         IN TwLoop(now, states, index + 1, FAdd(result, FMul(value, end - start)))

\* the integral stops at the last sample: its span up to now is left out
calculate_tw_without_last(now, states) ==
    FDiv(TwLoop(states[Len(states)][1], SubSeq(states, 1, Len(states) - 1), 1, Fin(0, 1)),
         ScanInterval)

\* normalised by the time the buffer spans instead of the scan interval
calculate_tw_over_elapsed(now, states) ==
    LET elapsed == now - states[1][1]
    IN IF elapsed > 0 THEN FDiv(TwLoop(now, states, 1, Fin(0, 1)), elapsed)
       ELSE TwLoop(now, states, 1, Fin(0, 1))

\* calculate_tw: the value returned
calculate_tw(now, states) == FDiv(TwLoop(now, states, 1, Fin(0, 1)), ScanInterval)

\* the seed takes the first value of the buffer
tw_buffer_after_first(now, states) == << <<now, states[1][2]>> >>

\* the seed appended to a buffer that is not cleared
tw_buffer_after_keep(now, states) == Append(states, <<now, states[Len(states)][2]>>)

\* calculate_tw: the buffer it leaves
tw_buffer_after(now, states) == << <<now, states[Len(states)][2]>> >>

RECURSIVE SumValues(_, _)
SumValues(states, index) ==
    IF index > Len(states) THEN Fin(0, 1)
    ELSE FAdd(states[index][2], SumValues(states, index + 1))

\* calculate_linear: result, as computed on line 301
linear_result(states) == FDiv(SumValues(states, 1), Len(states))

\* calculate_linear: the buffer it leaves
linear_buffer_after(states) == << >>

\* calculate_linear, line 305: the name `total` is not bound in calculate_linear,
\* so evaluating the arguments of the debug call raises NameError
calculate_linear_raises == TRUE

\* update(), lines 256-263: the loop over self.states.items(), from the i-th
\* entity on.  acc collects total, state_changed, the buffers, whether a call
\* raised, and (for the record) what each processed source contributed.
RECURSIVE RunLoop(_, _, _, _)
RunLoop(method, now, i, acc) ==
    IF i > Len(EntityIds) \/ acc.raised THEN acc
    ELSE LET entity_id == EntityIds[i]
             buf == acc.states[entity_id]
         IN IF Len(buf) = 0 THEN RunLoop(method, now, i + 1, acc)
            ELSE IF method = METHOD_LINEAR
            THEN RunLoop(method, now, i + 1,
                    [acc EXCEPT !.state_changed = TRUE,
                                !.states[entity_id] = linear_buffer_after(buf),
                                !.processed = @ \cup {entity_id},
                                !.raised = calculate_linear_raises,
                                !.contrib[entity_id] =
                                    IF calculate_linear_raises THEN None
                                    ELSE linear_result(buf),
                                !.total = IF calculate_linear_raises THEN @
                                          ELSE FAdd(@, linear_result(buf))])
            ELSE RunLoop(method, now, i + 1,
                    [acc EXCEPT !.state_changed = TRUE,
                                !.states[entity_id] = tw_buffer_after(now, buf),
                                !.processed = @ \cup {entity_id},
                                !.contrib[entity_id] = calculate_tw(now, buf),
                                !.total = FAdd(@, calculate_tw(now, buf))])

\* the average taken over the sources that had samples
combine_over_reporting(total, total_method, nonempty) ==
    IF total_method = TOTAL_METHOD_AVERAGE /\ nonempty > 0
    THEN FDiv(total, nonempty) ELSE total

\* update(), lines 267-270: the value handed to update_state.  nonempty is the
\* number of sources that had samples; the code divides by len(self.states)
combine(total, total_method, nonempty) ==
    IF total_method = TOTAL_METHOD_AVERAGE
    THEN FDiv(total, Len(EntityIds)) ELSE total

\* precision 0 rounding down instead of toward zero
round_value_floor(new_value, precision) ==
    IF precision = 0 THEN Fin(new_value.n \div new_value.d, 1)
    ELSE RoundOf(new_value, precision)

\* update_state, lines 311-314: int(nan) raises ValueError
round_raises(new_value, precision) == precision = 0 /\ IsNaN(new_value)
round_value(new_value, precision) ==
    IF precision = 0 THEN IntOf(new_value) ELSE RoundOf(new_value, precision)

\* the state written on every tick with data
must_report_always(native_value, average) == TRUE

\* update_state, line 316
must_report(native_value, average) == FNe(native_value, average)

\* two samples appended for one state change
buffer_append_twice(buf, ts, value) == Append(Append(buf, <<ts, value>>), <<ts, value>>)

\* _async_sensor_changed, line 232
buffer_append(buf, ts, value) == Append(buf, <<ts, value>>)

\* the lock still held after the block
lock_held_after_with(holder, error) == holder

\* the lock kept when the block is left by an exception
lock_kept_on_error(holder, error) == IF error THEN holder ELSE "free"

\* `with self.lock` (lines 231 and 256): the lock as the block leaves it, on a
\* normal exit and on an exception alike
lock_after_with(holder, error) == "free"

\* --------------------------------------------------------------- state
VARIABLES
    cfg,              \* _method, _total_method, _precision, _extremas
    clock,            \* utcnow()
    lock,             \* self.lock: "free", or who holds it
    states,           \* self.states: entity id -> list of samples
    min_value, max_value, min_entity_id, max_entity_id,
    native_value,     \* self._attr_native_value
    attrs,            \* the four extrema keys of _attr_extra_state_attributes
    \* update() in the executor thread
    tpc, now, total, state_changed, new_value, average,
    \* _async_sensor_changed in the event loop
    ipc, i_entity, i_ts, i_value,
    \* history
    nAccepted, nTicks,
    tickResult,       \* how the last tick ended
    reported,         \* async_write_ha_state calls of the current/last tick
    prev_value, prev_attrs,   \* native_value, attrs when the tick started
    drained,          \* the buffers as the tick's critical section found them
    contrib,          \* what calculate_* returned for each source in this tick
    processed,        \* the sources calculate_* was called for in this tick
    extAtDrain,       \* the extrema when the tick's critical section ended
    appendedSince,    \* sources appended to since the last critical section of a tick
    pendingLog,       \* the samples appended since then, per source, in call order
    added,            \* async_added_to_hass has run
    quiet             \* this tick follows another with no append in between

cfgv == <<cfg, added>>
shared == <<lock, states, min_value, max_value, min_entity_id, max_entity_id>>
extrema == <<min_value, max_value, min_entity_id, max_entity_id>>
published == <<native_value, attrs>>
ticklocals == <<tpc, now, total, state_changed, new_value, average>>
inglocals == <<ipc, i_entity, i_ts, i_value>>
tickhist == <<nTicks, tickResult, reported, prev_value, prev_attrs, drained, contrib,
              processed, extAtDrain, quiet>>
vars == <<cfg, clock, lock, states, min_value, max_value, min_entity_id, max_entity_id,
          native_value, attrs, tpc, now, total, state_changed, new_value, average,
          ipc, i_entity, i_ts, i_value, nAccepted, nTicks, tickResult,
          reported, prev_value, prev_attrs, drained, contrib, processed, extAtDrain,
          appendedSince, pendingLog, added, quiet>>

Empty == [e \in Sources |-> << >>]
NoContrib == [e \in Sources |-> None]
NoAttrs == [min_value |-> "<absent>", min_entity_id |-> "<absent>",
            max_value |-> "<absent>", max_entity_id |-> "<absent>"]
Extrema == [min_value |-> min_value, min_entity_id |-> min_entity_id,
            max_value |-> max_value, max_entity_id |-> max_entity_id]
NoExtrema == [min_value |-> None, min_entity_id |-> NoEntity,
              max_value |-> None, max_entity_id |-> NoEntity]

\* __init__, lines 175-203
Init ==
    /\ cfg \in [method : AVERAGE_METHODS, total_method : TOTAL_METHODS,
                precision : Precisions, extremas : BOOLEAN]
    /\ clock = 0
    /\ lock = "free"
    /\ states = Empty
    /\ min_value = None /\ max_value = None
    /\ min_entity_id = NoEntity /\ max_entity_id = NoEntity
    /\ native_value = None
    /\ attrs = NoAttrs
    /\ tpc = "idle" /\ now = 0 /\ total = Fin(0, 1) /\ state_changed = FALSE
    /\ new_value = None /\ average = None
    /\ ipc = "idle" /\ i_entity = NoEntity /\ i_ts = 0 /\ i_value = None
    /\ nAccepted = 0 /\ nTicks = 0
    /\ tickResult = "none"
    /\ reported = 0 /\ prev_value = None /\ prev_attrs = NoAttrs
    /\ drained = Empty /\ contrib = NoContrib /\ processed = {}
    /\ extAtDrain = NoExtrema
    /\ appendedSince = {} /\ quiet = FALSE
    /\ pendingLog = Empty
    /\ added = FALSE

\* async_added_to_hass, lines 205-219: the last state is restored, then the
\* listener is added; the platform polls update() only after that
async_added_to_hass(state) ==
    /\ ~added
    /\ added' = TRUE
    /\ native_value' =
         IF state = NoState THEN native_value                  \* line 210
         ELSE IF FloatOf(state).k = "ValueError" THEN native_value   \* lines 213-214
         ELSE FloatOf(state)                                       \* line 212
    /\ UNCHANGED <<cfg, clock, shared, attrs, ticklocals, inglocals, tickhist,
                   nAccepted, appendedSince, pendingLog>>

\* utcnow() and last_updated: the clock is read in two places only, and between
\* two readings it has stood still or moved on
Ticking(t) == t \in {clock, clock + 1} /\ t <= MaxClock

\* ------------------------------------------- _async_sensor_changed
\* the handler returns; a caught error (line 245) is logged as a warning, no more
IngestDone ==
    /\ ipc' = "idle" /\ i_entity' = NoEntity /\ i_ts' = 0 /\ i_value' = None

\* lines 223-229: the state filter and float(new_state.state)
IngestCall(entity_id, raw, t) ==
    /\ added
    /\ ipc = "idle"
    /\ Ticking(t)
    /\ IF raw \in {NoState, STATE_UNAVAILABLE, STATE_UNKNOWN}
       THEN UNCHANGED <<inglocals, nAccepted, clock>>         \* line 224
       ELSE IF FloatOf(raw).k = "ValueError"
       THEN UNCHANGED <<inglocals, nAccepted, clock>>         \* lines 245-246
       ELSE /\ nAccepted < MaxIngests
            /\ nAccepted' = nAccepted + 1
            /\ ipc' = "acquire"
            /\ i_entity' = entity_id
            /\ clock' = t
            /\ i_ts' = t                      \* new_state.last_updated
            /\ i_value' = FloatOf(raw)
    /\ UNCHANGED <<cfgv, shared, published, ticklocals, tickhist, appendedSince, pendingLog>>

\* line 231: with self.lock
IngestAcquire ==
    /\ ipc = "acquire"
    /\ lock = "free"
    /\ lock' = "ingest"
    /\ ipc' = "append"
    /\ UNCHANGED <<cfgv, clock, states, extrema, published, ticklocals, tickhist,
                   i_entity, i_ts, i_value, nAccepted, appendedSince, pendingLog>>

\* lines 232-235: the append, and the tests that choose the branch
IngestAppend ==
    /\ ipc = "append"
    /\ states' = [states EXCEPT ![i_entity] = buffer_append(@, i_ts, i_value)]
    /\ appendedSince' = appendedSince \cup {i_entity}
    /\ pendingLog' = [pendingLog EXCEPT ![i_entity] = Append(@, <<i_ts, i_value>>)]
    /\ IF ~cfg.extremas
       THEN lock' = lock_after_with("ingest", FALSE) /\ IngestDone
       ELSE /\ ipc' = IF IsNone(min_value) THEN "first_values" ELSE "cmp_min"
            /\ UNCHANGED <<lock, i_entity, i_ts, i_value>>
    /\ UNCHANGED <<cfgv, clock, extrema, published, ticklocals, tickhist, nAccepted>>

\* lines 236 and 237, one statement each
IngestFirst ==
    /\ ipc \in {"first_values", "first_ids"}
    /\ IF ipc = "first_values"
       THEN /\ min_value' = i_value /\ max_value' = i_value
            /\ ipc' = "first_ids"
            /\ UNCHANGED <<min_entity_id, max_entity_id, lock, i_entity, i_ts, i_value>>
       ELSE /\ min_entity_id' = i_entity /\ max_entity_id' = i_entity
            /\ lock' = lock_after_with("ingest", FALSE) /\ IngestDone
            /\ UNCHANGED <<min_value, max_value>>
    /\ UNCHANGED <<cfgv, clock, states, published, ticklocals, tickhist, nAccepted,
                   appendedSince, pendingLog>>

\* lines 239 and 242: value < self.min_value, value > self.max_value; comparing a
\* float with None raises TypeError, which line 245 catches
IngestCompare ==
    /\ ipc \in {"cmp_min", "cmp_max"}
    /\ LET other == IF ipc = "cmp_min" THEN min_value ELSE max_value
       IN IF IsNone(other)
          THEN lock' = lock_after_with("ingest", TRUE) /\ IngestDone
          ELSE IF ipc = "cmp_min"
          THEN /\ ipc' = IF FLt(i_value, min_value) THEN "set_min" ELSE "cmp_max"
               /\ UNCHANGED <<lock, i_entity, i_ts, i_value>>
          ELSE IF FLt(max_value, i_value)
          THEN /\ ipc' = "set_max"
               /\ UNCHANGED <<lock, i_entity, i_ts, i_value>>
          ELSE lock' = lock_after_with("ingest", FALSE) /\ IngestDone
    /\ UNCHANGED <<cfgv, clock, states, extrema, published, ticklocals, tickhist,
                   nAccepted, appendedSince, pendingLog>>

\* lines 240-241 and 243-244
IngestStore ==
    /\ ipc \in {"set_min", "set_min_id", "set_max", "set_max_id"}
    /\ min_value' = IF ipc = "set_min" THEN i_value ELSE min_value
    /\ min_entity_id' = IF ipc = "set_min_id" THEN i_entity ELSE min_entity_id
    /\ max_value' = IF ipc = "set_max" THEN i_value ELSE max_value
    /\ max_entity_id' = IF ipc = "set_max_id" THEN i_entity ELSE max_entity_id
    /\ IF ipc \in {"set_min_id", "set_max_id"}
       THEN lock' = lock_after_with("ingest", FALSE) /\ IngestDone
       ELSE /\ ipc' = IF ipc = "set_min" THEN "set_min_id" ELSE "set_max_id"
            /\ UNCHANGED <<lock, i_entity, i_ts, i_value>>
    /\ UNCHANGED <<cfgv, clock, states, published, ticklocals, tickhist, nAccepted,
                   appendedSince, pendingLog>>

\* ------------------------------------------------------------ update
\* update() has returned, or raised `result`
TickEnds(result) ==
    /\ tpc' = "ended"
    /\ tickResult' = result

\* lines 250-254
TickStart(t) ==
    /\ added
    /\ tpc = "idle"
    /\ nTicks < MaxTicks
    /\ Ticking(t)
    /\ clock' = t
    /\ tpc' = "acquire"
    /\ now' = t
    /\ tickResult' = "running"
    /\ prev_value' = native_value /\ prev_attrs' = attrs
    /\ UNCHANGED <<cfgv, shared, published, inglocals, nAccepted, nTicks, appendedSince, pendingLog, total, state_changed, new_value,
                   average, reported, drained, contrib, processed, extAtDrain, quiet>>

\* line 256: with self.lock
TickAcquire ==
    /\ tpc = "acquire"
    /\ lock = "free"
    /\ lock' = "tick"
    /\ tpc' = "loop"
    /\ UNCHANGED <<cfgv, clock, states, extrema, published, now, total, state_changed,
                   new_value, average, inglocals, tickhist, nAccepted,
                   appendedSince, pendingLog>>

\* lines 257-263, and the release of the lock (also when calculate_linear raises)
TickLoop ==
    /\ tpc = "loop"
    /\ \E acc \in {RunLoop(cfg.method, now, 1,
                    [total |-> total, state_changed |-> state_changed,
                     states |-> states, raised |-> FALSE,
                     contrib |-> NoContrib, processed |-> {}])} :
          /\ states' = acc.states
          /\ total' = acc.total
          /\ state_changed' = acc.state_changed
          /\ contrib' = acc.contrib
          /\ processed' = acc.processed
          /\ lock' = lock_after_with("tick", acc.raised)
          /\ IF acc.raised
             THEN TickEnds("NameError")
             ELSE tpc' = "combine" /\ UNCHANGED tickResult
    /\ drained' = states
    /\ extAtDrain' = Extrema
    /\ quiet' = (nTicks > 0 /\ appendedSince = {})
    /\ appendedSince' = {}
    /\ pendingLog' = Empty
    /\ UNCHANGED <<cfgv, clock, extrema, published, now, new_value, average, inglocals,
                   nAccepted, nTicks, reported, prev_value, prev_attrs>>

\* lines 265-270 and update_state, lines 311-318
TickUpdateState ==
    /\ tpc = "combine"
    /\ IF ~state_changed
       THEN /\ tpc' = "reset"
            /\ UNCHANGED <<native_value, new_value, average, tickResult>>
       ELSE LET nonempty == Cardinality({e \in Sources : Len(drained[e]) > 0})
                v == combine(total, cfg.total_method, nonempty)
            IN /\ new_value' = v
               /\ IF round_raises(v, cfg.precision)
                  THEN /\ TickEnds("ValueError")
                       /\ UNCHANGED <<native_value, average>>
                  ELSE /\ average' = round_value(v, cfg.precision)
                       /\ UNCHANGED tickResult
                       /\ IF must_report(native_value, average')
                          THEN /\ native_value' = average'
                               /\ tpc' = IF cfg.extremas THEN "attr_min" ELSE "write"
                          ELSE /\ tpc' = "reset"
                               /\ UNCHANGED native_value
    /\ UNCHANGED <<cfgv, clock, shared, attrs, now, total, state_changed, inglocals,
                   nAccepted, nTicks, reported, prev_value, prev_attrs,
                   drained, contrib, processed, extAtDrain, quiet, appendedSince, pendingLog>>

\* lines 320-327: the four values of the dict are read one after the other
TickAttributes ==
    /\ tpc \in {"attr_min", "attr_min_id", "attr_max", "attr_max_id"}
    /\ attrs' = CASE tpc = "attr_min" -> [attrs EXCEPT !.min_value = StrOf(min_value)]
                  [] tpc = "attr_min_id" -> [attrs EXCEPT !.min_entity_id = min_entity_id]
                  [] tpc = "attr_max" -> [attrs EXCEPT !.max_value = StrOf(max_value)]
                  [] OTHER -> [attrs EXCEPT !.max_entity_id = max_entity_id]
    /\ tpc' = CASE tpc = "attr_min" -> "attr_min_id"
                [] tpc = "attr_min_id" -> "attr_max"
                [] tpc = "attr_max" -> "attr_max_id"
                [] OTHER -> "write"
    /\ UNCHANGED <<cfgv, clock, shared, native_value, now, total, state_changed,
                   new_value, average, inglocals, tickhist, nAccepted,
                   appendedSince, pendingLog>>

\* line 328: self.async_write_ha_state()
TickWrite ==
    /\ tpc = "write"
    /\ reported' = reported + 1
    /\ tpc' = "reset"
    /\ UNCHANGED <<cfgv, clock, shared, published, now, total, state_changed,
                   new_value, average, inglocals, nAccepted, nTicks,
                   tickResult, prev_value, prev_attrs, drained, contrib, processed,
                   extAtDrain, quiet, appendedSince, pendingLog>>

\* line 273
TickReset ==
    /\ tpc = "reset"
    /\ min_value' = None /\ max_value' = None
    /\ min_entity_id' = NoEntity /\ max_entity_id' = NoEntity
    /\ TickEnds("ok")
    /\ UNCHANGED <<cfgv, clock, lock, states, published, now, total, state_changed,
                   new_value, average, inglocals, nAccepted, nTicks,
                   reported, prev_value, prev_attrs, drained, contrib, processed,
                   extAtDrain, quiet, appendedSince, pendingLog>>

\* the executor job is over: the locals of update() are gone
TickReturn ==
    /\ tpc = "ended"
    /\ tpc' = "idle"
    /\ nTicks' = nTicks + 1
    /\ tickResult' = "none"
    /\ now' = 0 /\ total' = Fin(0, 1) /\ state_changed' = FALSE
    /\ new_value' = None /\ average' = None
    /\ reported' = 0 /\ prev_value' = None /\ prev_attrs' = NoAttrs
    /\ drained' = Empty /\ contrib' = NoContrib /\ processed' = {}
    /\ extAtDrain' = NoExtrema /\ quiet' = FALSE
    /\ UNCHANGED <<cfgv, clock, shared, published, inglocals, nAccepted,
                   appendedSince, pendingLog>>

Ingest ==
    \/ \E entity_id \in Sources, raw \in RawStates, t \in 0..MaxClock :
            IngestCall(entity_id, raw, t)
    \/ IngestAcquire
    \/ IngestAppend
    \/ IngestFirst
    \/ IngestCompare
    \/ IngestStore

Tick ==
    \/ \E t \in 0..MaxClock : TickStart(t)
    \/ TickAcquire
    \/ TickLoop
    \/ TickUpdateState
    \/ TickAttributes
    \/ TickWrite
    \/ TickReset
    \/ TickReturn

Restore == \E state \in PersistedStates : async_added_to_hass(state)

Next == Restore \/ Ingest \/ Tick

Spec == Init /\ [][Next]_vars

\* =================================================================== claims
\* the tick has left its critical section (update() may have ended already)
AfterLoop == tpc \in {"combine", "attr_min", "attr_min_id", "attr_max",
                      "attr_max_id", "write", "reset", "ended"}
HadData(e) == Len(drained[e]) > 0
Last(buf) == buf[Len(buf)]
TW == cfg.method = METHOD_TIME_WEIGHTED

\* sum over i<n of v_i*(t_{i+1}-t_i), plus v_n*(end-t_n), taken from the last
\* sample backwards
RECURSIVE Integral(_, _)
Integral(buf, end) ==
    IF Len(buf) = 0 THEN Fin(0, 1)
    ELSE FAdd(Integral(SubSeq(buf, 1, Len(buf) - 1), Last(buf)[1]),
              FMul(Last(buf)[2], end - Last(buf)[1]))

\* the sum of what the sources of a set contributed
RECURSIVE SumContrib(_)
SumContrib(S) ==
    IF S = {} THEN Fin(0, 1)
    ELSE LET e == CHOOSE x \in S : TRUE IN FAdd(contrib[e], SumContrib(S \ {e}))

\* C1: with method = time-weighted, the contribution a tick computes for a source
\* whose buffer held (t_0,v_0)..(t_n,v_n) is
\* (sum_{i<n} v_i*(t_{i+1}-t_i) + v_n*(now-t_n)) / scan interval.
C1_TimeWeightedContribution ==
    (TW /\ AfterLoop) =>
        \A e \in Sources :
            HadData(e) => contrib[e] = FDiv(Integral(drained[e], now), ScanInterval)

\* C1 witness: samples (0, 1), (1, -3), tick at 2, interval 2: (1*1 + -3*1)/2 = -1.
C1_Witness ==
    /\ TW /\ tpc = "combine"
    /\ drained["A"] = << <<0, Fin(1, 1)>>, <<1, Fin(-3, 1)>> >>
    /\ now = 2
    /\ contrib["A"] = Fin(-1, 1)

\* C2 as claimed: with combine = average the value handed to update_state is the
\* sum of the contributions divided by the number of sources that had samples.
C2_AverageOverSourcesWithData ==
    (cfg.total_method = TOTAL_METHOD_AVERAGE /\ ~IsNone(new_value)) =>
        new_value = FDiv(SumContrib(processed), Cardinality(processed))

\* C2 amended: with combine = average the value handed to update_state is the
\* sum of the contributions divided by the number of configured sources,
\* whether or not each of them had samples.
C2_AverageOverConfiguredSources ==
    (cfg.total_method = TOTAL_METHOD_AVERAGE /\ ~IsNone(new_value)) =>
        new_value = FDiv(SumContrib(processed), Cardinality(Sources))

\* C2 witness: one source of two had samples, and the value handed on is half
\* its contribution.
C2_Witness ==
    /\ cfg.total_method = TOTAL_METHOD_AVERAGE
    /\ tpc = "reset"
    /\ processed = {"A"}
    /\ IsFin(new_value) /\ new_value.n # 0
    /\ new_value = FDiv(contrib["A"], 2)

\* C3 as claimed: with method = linear a tick that finds samples computes their
\* arithmetic mean and hands it on to combine, round and report.
C3_LinearMeanReachesReport ==
    (cfg.method = METHOD_LINEAR /\ tpc = "ended" /\ processed # {}) =>
        /\ tickResult = "ok"
        /\ \A e \in processed : contrib[e] = linear_result(drained[e])

\* C4: a tick writes the state at most once, only if the rounded value differs
\* (!=) from current_value as it was when the tick began, and then current_value
\* is the rounded value; if they are equal, current_value and the attributes
\* are as they were.
C4_ReportOnlyOnChange ==
    /\ reported <= 1
    /\ reported = 1 =>
        /\ ~IsNone(average)
        /\ FNe(prev_value, average)
        /\ native_value = average
    /\ (tpc \in {"reset", "ended"} /\ ~IsNone(average) /\ ~FNe(prev_value, average)) =>
        /\ reported = 0
        /\ native_value = prev_value
        /\ attrs = prev_attrs

\* C4 witness: a tick has replaced a value reported earlier and written the state.
C4_Witness ==
    /\ tpc = "ended" /\ reported = 1
    /\ IsFin(prev_value) /\ IsFin(native_value) /\ native_value # prev_value

\* C5 as claimed: a tick that follows another with no ingest in between writes no
\* state and leaves current_value as it was.
C5_SecondTickSilent ==
    (quiet /\ tpc = "ended") => (reported = 0 /\ native_value = prev_value)

\* C5 amended: in a tick that follows another with no ingest in between, with
\* method = time-weighted every buffer is empty or holds the one seed (t1, v) of
\* the tick before, which contributes v*(now-t1)/scan interval; the tick writes
\* the state exactly when the rounded combination of these differs from
\* current_value, and otherwise (also with method = linear, which never writes)
\* leaves current_value as it was.
C5_SecondTickIntegratesSeeds ==
    (quiet /\ AfterLoop) =>
        /\ TW => \A e \in Sources :
                    /\ Len(drained[e]) <= 1
                    /\ HadData(e) =>
                         contrib[e] = FDiv(FMul(drained[e][1][2], now - drained[e][1][1]),
                                           ScanInterval)
        /\ (tpc = "ended" /\ tickResult = "ok") =>
              /\ reported = 1 <=> (state_changed /\ FNe(prev_value, average))
              /\ reported = 0 => native_value = prev_value
        /\ ~TW => (reported = 0 /\ native_value = prev_value)

\* C5 witness: the second of two ticks with no ingest in between has written a
\* new state.
C5_Witness ==
    /\ quiet /\ tpc = "ended" /\ reported = 1
    /\ IsFin(prev_value) /\ native_value # prev_value

\* C6 as claimed: for both methods, after the tick has processed a non-empty
\* buffer of source S, the buffer of S is the one sample (now, last value).
C6_SeedAfterTick ==
    AfterLoop =>
        \A e \in processed \ appendedSince :
            states[e] = << <<now, Last(drained[e])[2]>> >>

\* C6 amended: with method = time-weighted the buffer of S is then the one sample
\* (now, last value); with method = linear it is empty.
C6_SeedAfterTimeWeightedTick ==
    AfterLoop =>
        \A e \in processed \ appendedSince :
            states[e] = IF TW THEN << <<now, Last(drained[e])[2]>> >> ELSE << >>

\* C6 witness: a time-weighted tick has drained two samples of different value
\* and left the seed.
C6_Witness ==
    /\ TW /\ tpc = "combine"
    /\ Len(drained["A"]) = 2
    /\ drained["A"][1][2] # drained["A"][2][2]
    /\ states["A"] = << <<now, drained["A"][2][2]>> >>

\* C7 as claimed: once a tick has ended, and until the next accepted ingest, the
\* four extrema fields are unset.
C7_ExtremaUnsetAfterTick ==
    (tpc = "ended" /\ ipc = "idle" /\ appendedSince = {}) => Extrema = NoExtrema

\* C8 as claimed: the extrema written with the state are those of the samples
\* ingested before the tick's critical section ended.
C8_ReportedExtremaOfClosedInterval ==
    (cfg.extremas /\ reported = 1) =>
        attrs = [min_value |-> StrOf(extAtDrain.min_value),
                 min_entity_id |-> extAtDrain.min_entity_id,
                 max_value |-> StrOf(extAtDrain.max_value),
                 max_entity_id |-> extAtDrain.max_entity_id]

\* C9 as claimed: a value that is not a finite number is dropped, so no buffer
\* ever holds one and no extremum is one.
C9_NonFiniteDropped ==
    /\ \A e \in Sources : \A i \in 1..Len(states[e]) : IsFin(states[e][i][2])
    /\ ~IsNaN(min_value) /\ ~IsNaN(max_value)

\* C10 as claimed: no tick ends in an error; every tick runs to the end of
\* update().
C10_NoErrorLeavesTick ==
    tpc = "ended" => tickResult = "ok"

\* ---------------------------------------------------------------- C11
\* the steps of a tick that found every buffer empty in its critical section
EmptyTickStep ==
    /\ tpc' # tpc
    /\ \/ tpc = "loop" /\ \A e \in Sources : states[e] = <<>>
       \/ tpc \in {"combine", "reset"} /\ ~state_changed

\* C11: a tick that finds every buffer empty in its critical section changes
\* nothing: no step of it touches the value, the reported attributes, a buffer
\* or the extrema, and it does not report
C11_EmptyTickIsNoOp ==
    [][EmptyTickStep => UNCHANGED <<native_value, attrs, states, extrema, reported>>]_vars

\* ---------------------------------------------------------------- C12
\* v is x cut toward zero to an integer
IsTruncationOf(x, v) ==
    /\ IsFin(x) /\ IsFin(v) /\ v.d = 1
    /\ v.n * x.n >= 0
    /\ Abs(v.n) * x.d <= Abs(x.n)
    /\ Abs(x.n) - Abs(v.n) * x.d < x.d

\* v has p decimal digits and no number of p digits is nearer to x; of two
\* equally near ones v is the one with the even last digit
IsNearestOf(x, p, v) ==
    /\ IsFin(x) /\ IsFin(v)
    /\ (v.n * Pow10(p)) % v.d = 0
    /\ LET m == (v.n * Pow10(p)) \div v.d
           twice == 2 * Abs(x.n * Pow10(p) - m * x.d)
       IN /\ twice <= x.d
          /\ twice = x.d => m % 2 = 0

IsRoundingOf(x, p, v) ==
    IF IsNaN(x) THEN p > 0 /\ IsNaN(v)
    ELSE IF p = 0 THEN IsTruncationOf(x, v) ELSE IsNearestOf(x, p, v)

\* C12: when a tick reports, the value it reports is the value stored, and it
\* is the combined value cut toward zero (precision 0) or rounded to the
\* configured number of digits; a tick stores no other value
C12_ReportedValueIsRounded ==
    /\ (tpc # "idle" /\ reported = 1) =>
          /\ native_value = average
          /\ IsRoundingOf(new_value, cfg.precision, native_value)
    /\ (tpc # "idle" /\ native_value # prev_value) =>
          /\ state_changed
          /\ IsRoundingOf(new_value, cfg.precision, native_value)

\* a negative half is cut toward zero and reported
C12_Witness ==
    /\ reported = 1
    /\ cfg.precision = 0
    /\ IsFin(new_value) /\ new_value.n < 0 /\ new_value.d > 1
    /\ IsFin(native_value) /\ native_value.n * new_value.d > new_value.n

\* ---------------------------------------------------------------- C13
\* float(state.state) of a persisted state, where there is one to parse
RestoredValues ==
    {FloatOf(state) : state \in {st \in PersistedStates \ {NoState} :
                                    FloatOf(st).k # "ValueError"}}

\* a tick has ended that saw a sample in its critical section
EndedWithData == tpc = "ended" /\ \E e \in Sources : Len(drained[e]) > 0

\* C13: before any tick the value is the restored one or unset, and restoring
\* raises nothing; a tick with data that starts from an unset value reports;
\* a tick whose rounded aggregate is the value it started from reports nothing
C13_RestoreThenFirstReport ==
    /\ (added /\ nTicks = 0 /\ tpc = "idle") =>
          (IsNone(native_value) \/ native_value \in RestoredValues)
    /\ (EndedWithData /\ IsNone(prev_value)) => reported = 1
    /\ (EndedWithData /\ tickResult = "ok" /\ prev_value \in RestoredValues
          /\ IsRoundingOf(new_value, cfg.precision, prev_value)) => reported = 0

\* the same, for the ticks of the time-weighted method over finite samples
C13_RestoreThenFirstReportFinite ==
    (cfg.method = METHOD_TIME_WEIGHTED /\ (tpc = "ended" => IsFin(new_value)))
        => C13_RestoreThenFirstReport

\* a restored 1.0 and a first aggregate of 1.0: nothing is reported
C13_Suppressed ==
    /\ EndedWithData /\ nTicks = 0 /\ tickResult = "ok"
    /\ prev_value = Fin(1, 1) /\ average = Fin(1, 1) /\ reported = 0

\* ---------------------------------------------------------------- C14
\* no ingest is inside its critical section
IngestOutside == ipc \in {"idle", "acquire"}

\* C14: with extrema enabled, whenever no ingest is in the middle of its
\* critical section, min_value and max_value are both set or both unset, and so
\* are the two source ids; and while a buffer holds a sample appended since the
\* last tick drained it, both extrema are set
C14_ExtremaSetTogether ==
    (cfg.extremas /\ IngestOutside) =>
        /\ IsNone(min_value) <=> IsNone(max_value)
        /\ min_entity_id = NoEntity <=> max_entity_id = NoEntity
        /\ (\E e \in Sources : pendingLog[e] # <<>>) =>
               ~IsNone(min_value) /\ ~IsNone(max_value)

\* the first line of C14 alone, with no tick and no ingest under way
C14_PairedAtRest ==
    (cfg.extremas /\ ipc = "idle" /\ tpc = "idle") =>
        (IsNone(min_value) <=> IsNone(max_value))

\* ---------------------------------------------------------------- C15
\* the samples in the buffers, with their sources
Buffered == UNION {{[e |-> e, ts |-> states[e][i][1], v |-> states[e][i][2]] :
                        i \in 1..Len(states[e])} : e \in Sources}
FLe(a, b) == IsFin(a) /\ IsFin(b) /\ a.n * b.d <= b.n * a.d

\* no tick has started yet: the buffers hold every sample accepted so far
BeforeFirstTick == cfg.extremas /\ nTicks = 0 /\ tpc = "idle" /\ ipc = "idle"

\* id is the source of a sample of value m that none of another source precedes
IsFirstAttaining(id, m) ==
    \E s \in Buffered :
        /\ s.e = id /\ s.v = m
        /\ \A o \in Buffered : o.v = m => s.ts <= o.ts

\* a NaN among the samples bounds nothing; every number ingested lies between
\* the extrema
ExtremaOfBuffered ==
    /\ \A s \in Buffered : IsFin(s.v) => FLe(min_value, s.v) /\ FLe(s.v, max_value)
    /\ IsFirstAttaining(min_entity_id, min_value)
    /\ IsFirstAttaining(max_entity_id, max_value)

\* C15: with extrema enabled and no tick in between, after any sequence of accepted
\* ingests min_value is the least and max_value the greatest of the values
\* ingested, and each id is the source of the first sample that attained it
C15_ExtremaOfIngested ==
    (BeforeFirstTick /\ Buffered # {}) => ExtremaOfBuffered

\* the same, where every value ingested is finite
C15_ExtremaOfFiniteIngested ==
    (BeforeFirstTick /\ Buffered # {} /\ \A s \in Buffered : IsFin(s.v))
        => ExtremaOfBuffered

\* before the first tick, an ingest that finds its value equal to an extremum
\* (lines 239 and 242) stores nothing
C15_EqualSampleChangesNothing ==
    [][(nTicks = 0 /\ tpc = "idle" /\ ipc \in {"cmp_min", "cmp_max"}
          /\ (i_value = min_value \/ i_value = max_value))
          => /\ ipc' \notin {"set_min", "set_max"}
             /\ UNCHANGED extrema]_vars

\* ---------------------------------------------------------------- C16
\* update() is past its with-block and inside update_state (lines 270, 309-328)
InUpdateState == tpc \in {"combine", "attr_min", "attr_min_id", "attr_max",
                          "attr_max_id", "write"}

\* C16: the tick does not hold the lock while update_state runs and the state is
\* written: the critical section has ended before
C16_ReportOutsideLock ==
    /\ InUpdateState => lock # "tick"
    /\ lock = "tick" => tpc = "loop"

\* an ingest holds the lock while the tick is about to write the state
C16_Witness == tpc = "write" /\ lock = "ingest" /\ ipc = "append"

\* ---------------------------------------------------------------- C17
\* buf is log, after at most one sample (the seed) that came before it
EndsWith(buf, log) ==
    /\ Len(buf) - Len(log) \in {0, 1}
    /\ SubSeq(buf, Len(buf) - Len(log) + 1, Len(buf)) = log

\* C17: with method = time-weighted, each buffer is the seed of the last tick, if
\* there is one, followed by the samples accepted since that tick's critical
\* section, in the order of the ingest calls; a sample is in the buffer from its
\* append until the next critical section of a tick, which integrates it, and is
\* in no buffer afterwards: after the critical section the buffer is the seed
\* and what was appended since
C17_EachSampleInOneTick ==
    TW => /\ \A e \in Sources : EndsWith(states[e], pendingLog[e])
          /\ \A e \in Sources : (pendingLog[e] = <<>>) <=> (e \notin appendedSince)
          /\ AfterLoop => \A e \in processed :
                /\ Len(states[e]) = 1 + Len(pendingLog[e])
                /\ states[e][1] = <<now, Last(drained[e])[2]>>
                /\ contrib[e] = FDiv(Integral(drained[e], now), ScanInterval)

\* a tick has integrated a sample and left the seed; a sample accepted after its
\* critical section waits behind the seed for the next tick
C17_Witness ==
    /\ TW /\ AfterLoop
    /\ \E e \in Sources :
          /\ Len(drained[e]) = 1
          /\ Len(states[e]) = 2 /\ Len(pendingLog[e]) = 1
          /\ states[e][1] = <<now, drained[e][1][2]>>

\* ---------------------------------------------------------------- C18
\* the weights calculate_tw multiplies the samples of a buffer with (lines 282-288)
Durations(buf, end) ==
    {(IF i < Len(buf) THEN buf[i + 1][1] ELSE end) - buf[i][1] : i \in 1..Len(buf)}

\* C18: with method = time-weighted (every ingest is stamped with the clock of
\* its call, so stamps never decrease and none lies in the future), every
\* duration a tick weights a sample with is >= 0, and the seed the tick leaves
\* is stamped no earlier than any sample it drained
C18_DurationsNonNegative ==
    (TW /\ AfterLoop) => \A e \in processed :
        /\ \A d \in Durations(drained[e], now) : d >= 0
        /\ \A i \in 1..Len(drained[e]) : drained[e][i][1] <= now

\* ---------------------------------------------------------------- C19
\* the steps of a handler and of update() that have been entered; the event
\* loop resumes a handler it has called and the executor thread runs update()
\* to its end, and threading.Lock hands a released lock to a waiting thread
IngestProgress == IngestAcquire \/ IngestAppend \/ IngestFirst \/ IngestCompare \/ IngestStore
TickProgress ==
    TickAcquire \/ TickUpdateState \/ TickAttributes \/ TickWrite \/ TickReset
        \/ TickReturn
\* TickLoop is enabled whenever update() is inside the with-block and always
\* leaves it, so that weak fairness of TickLoop is: never inside for ever
\* the sensor configured with the default precision and combine method: both
\* are read after the with-block only (lines 267 and 311)
DEFAULT_PRECISION == 1
DefaultInit ==
    /\ Init
    /\ cfg.precision = DEFAULT_PRECISION
    /\ cfg.total_method = TOTAL_METHOD_SUM
FairSpec ==
    /\ DefaultInit /\ [][Next]_vars
    /\ WF_vars(IngestProgress)
    /\ WF_vars(TickProgress)
    /\ []<>(tpc # "loop")

\* the statements of _async_sensor_changed inside `with self.lock`
IngestInside == ipc \in {"append", "first_values", "first_ids", "cmp_min", "cmp_max",
                         "set_min", "set_min_id", "set_max", "set_max_id"}

LockHeldByOne ==
    /\ lock = "ingest" <=> IngestInside
    /\ lock = "tick" <=> tpc = "loop"
    /\ ~(IngestInside /\ tpc = "loop")

\* C19: the lock is held by the ingest or the tick that is inside its critical
\* section and by nothing else, so by at most one of them, and it is free again
\* when that ingest or tick has ended, also when it ended with an error; and
\* under fair scheduling an ingest or a tick that waits for the lock gets it
C19_LockReleasedAndAcquired ==
    /\ []LockHeldByOne
    /\ (ipc = "acquire") ~> (ipc = "append")
    /\ (tpc = "acquire") ~> (tpc = "loop")

\* a tick has raised NameError inside the block: the lock is free, and the
\* ingest that waited for it can go on
C19_Witness == tickResult = "NameError" /\ lock = "free" /\ ipc = "acquire"

\* an ingest is about to raise TypeError inside the block while a tick waits
C19_IngestErrorInside ==
    tpc = "acquire" /\ lock = "ingest" /\ ipc = "cmp_max" /\ IsNone(max_value)

\* ---------------------------------------------------------------- C20
\* a step of an accepted ingest: the handler moves on
IngestStep == ipc' # ipc

\* C20: an accepted ingest for a source appends one sample to the buffer of that
\* source, at its append step and at no other, a handler passing the append
\* once; it changes the extrema only if they are enabled; it leaves the other
\* buffers, the value and the reported attributes alone and writes no state
C20_IngestFrame ==
    [][IngestStep =>
          /\ UNCHANGED <<native_value, attrs, reported>>
          /\ IF ipc = "append"
             THEN /\ states'[i_entity] = Append(states[i_entity], <<i_ts, i_value>>)
                  /\ \A e \in Sources \ {i_entity} : states'[e] = states[e]
             ELSE UNCHANGED states
          /\ ~cfg.extremas => UNCHANGED extrema
          /\ ipc' = "append" <=> ipc = "acquire"
          /\ ipc' = "acquire" <=> ipc = "idle"]_vars

\* one ingest for A has been accepted and has returned: A's buffer holds its
\* sample, the extrema are those of the sample, and nothing else has changed
C20_Witness ==
    /\ cfg.extremas /\ nAccepted = 1 /\ ipc = "idle"
    /\ tpc = "idle" /\ nTicks = 0
    /\ Len(states["A"]) = 1 /\ states["B"] = <<>>
    /\ min_value = states["A"][1][2] /\ min_entity_id = "A"
    /\ attrs = NoAttrs /\ reported = 0

====
